---- MODULE Spec2Model ----
(***************************************************************************)
(* DataAnalyzer (src/data_analyzer.py): an analyzer object holding a list  *)
(* of DataPoint (label, value) and the derived list of values, and its     *)
(* numeric methods.  Values are integers standing for the float values of  *)
(* the program; the results of division are exact rationals, and a square  *)
(* root is kept exactly as the root of a rational (statistics.mean and     *)
(* statistics.stdev compute with exact fractions before converting).       *)
(* A method call ends by returning a value or by raising an exception:     *)
(* both outcomes are recorded.                                             *)
(***************************************************************************)
EXTENDS Integers, Sequences, FiniteSets

VARIABLES data, values, call, outcome

vars == <<data, values, call, outcome>>

\* ------------------------------------------------------------------ bounds
MaxLen == 3
MaxVal == 2
MaxThreshold == 2
MaxWindow == 4

Values == (-1)..MaxVal
Thresholds == (-1)..MaxThreshold
Windows == (-2)..MaxWindow

\* ------------------------------------------------------------- DataPoint
\* The methods never read a label.  The points of a dataset carry distinct
\* labels, as the keys of the mapping given to DataProcessor.from_dict do, so
\* that two points of equal value are told apart.
LabelNames == <<"A", "B", "C", "D", "E", "F">>

MakeData(vs) == [i \in 1..Len(vs) |-> [label |-> LabelNames[i], value |-> vs[i]]]

Datasets == {MakeData(vs) : vs \in UNION {[1..n -> Values] : n \in 0..MaxLen}}

\* ------------------------------------------------------ outcomes of a call
Return(v) == [kind |-> "return", value |-> v]
Raise(e) == [kind |-> "raise", error |-> e]

\* --------------------------------------------------- exact number helpers
Abs(n) == IF n < 0 THEN -n ELSE n

RECURSIVE Gcd(_, _)
Gcd(a, b) == IF b = 0 THEN a ELSE Gcd(b, a % b)

\* The rational n/d (d # 0) in lowest terms with a positive denominator.
Rat(n, d) ==
  LET g == Gcd(Abs(n), Abs(d))
      s == IF d < 0 THEN -1 ELSE 1
  IN [num |-> (s * n) \div g, den |-> Abs(d) \div g]

RatOf(i) == [num |-> i, den |-> 1]
RatAdd(a, b) == Rat(a.num * b.den + b.num * a.den, a.den * b.den)
RatSub(a, b) == Rat(a.num * b.den - b.num * a.den, a.den * b.den)
RatMul(a, b) == Rat(a.num * b.num, a.den * b.den)
RatLt(a, b) == a.num * b.den < b.num * a.den
RatLe(a, b) == a.num * b.den <= b.num * a.den
RatIsZero(a) == a.num = 0

\* The non-negative square root of a non-negative rational, kept exact.
Sqrt(q) == [radicand |-> q]
\* Is the root s greater than the integer t?
RootGt(s, t) == t < 0 \/ RatLt(RatOf(t * t), s.radicand)

\* Python's true division a / b: dividing by zero raises ZeroDivisionError.
ZeroDivisionError == [error |-> "ZeroDivisionError"]
StatisticsError == [error |-> "StatisticsError"]
IsError(x) == "error" \in DOMAIN x

TrueDiv(a, b) ==
  IF RatIsZero(b) THEN ZeroDivisionError
  ELSE Rat(a.num * b.den, a.den * b.num)

\* ------------------------------------------------------ Python built-ins
RECURSIVE sum(_)
sum(xs) == IF xs = <<>> THEN 0 ELSE xs[1] + sum(Tail(xs))

min(xs) == CHOOSE m \in {xs[i] : i \in DOMAIN xs} : \A i \in DOMAIN xs : m <= xs[i]
max(xs) == CHOOSE m \in {xs[i] : i \in DOMAIN xs} : \A i \in DOMAIN xs : m >= xs[i]

Reversed(s) == [i \in 1..Len(s) |-> s[Len(s) + 1 - i]]

\* s[lo:hi] with Python's rules: a negative index counts from the end and
\* indices are clamped to the list.  lo and hi are 0-based.
PySlice(s, lo, hi) ==
  LET n == Len(s)
      norm(k) == IF k < 0 THEN (IF k + n < 0 THEN 0 ELSE k + n)
                 ELSE (IF k > n THEN n ELSE k)
      a == norm(lo)
      b == norm(hi)
  IN IF a < b THEN SubSeq(s, a + 1, b) ELSE <<>>

\* Insert index i into the key-ordered index list after every index whose
\* key is not greater than i's key (binary insertion, as list.sort does).
InsertIdx(order, i, keys) ==
  LET p == Cardinality({k \in 1..Len(order) : keys[order[k]] <= keys[i]})
  IN SubSeq(order, 1, p) \o <<i>> \o SubSeq(order, p + 1, Len(order))

RECURSIVE SortIdx(_, _)
SortIdx(n, keys) ==
  IF n = 0 THEN <<>> ELSE InsertIdx(SortIdx(n - 1, keys), n, keys)

StableSort(items, keys) ==
  LET order == SortIdx(Len(items), keys)
  IN [k \in 1..Len(items) |-> items[order[k]]]

\* sorted(items, key=..., reverse=...): list.sort reverses the list, sorts
\* it stably in ascending key order, and reverses the result.
sorted(items, keys, reverse) ==
  IF reverse
  THEN Reversed(StableSort(Reversed(items), Reversed(keys)))
  ELSE StableSort(items, keys)

\* --------------------------------------------------- statistics module
mean_div_n_minus_1(xs) ==
  IF xs = <<>> THEN StatisticsError
  ELSE IF Len(xs) = 1 THEN RatOf(xs[1])
  ELSE Rat(sum(xs), Len(xs) - 1)

mean(xs) ==
  IF xs = <<>> THEN StatisticsError ELSE Rat(sum(xs), Len(xs))

median(xs) ==
  LET s == sorted(xs, xs, FALSE)
      n == Len(xs)
  IN IF n = 0 THEN StatisticsError
     ELSE IF n % 2 = 1 THEN RatOf(s[(n \div 2) + 1])
     ELSE Rat(s[n \div 2] + s[(n \div 2) + 1], 2)

RECURSIVE SumSqDev(_, _)
SumSqDev(xs, m) ==
  IF xs = <<>> THEN RatOf(0)
  ELSE LET d == RatSub(RatOf(xs[1]), m)
       IN RatAdd(RatMul(d, d), SumSqDev(Tail(xs), m))

variance(xs) ==
  IF Len(xs) < 2 THEN StatisticsError
  ELSE LET ss == SumSqDev(xs, mean(xs))
       IN Rat(ss.num, ss.den * (Len(xs) - 1))

stdev(xs) ==
  IF IsError(variance(xs)) THEN variance(xs) ELSE Sqrt(variance(xs))

\* abs(a / s) for a rational a and a root s: a root of a rational again.
AbsDivRoot(a, s) ==
  IF RatIsZero(s.radicand) THEN ZeroDivisionError
  ELSE Sqrt(TrueDiv(RatMul(a, a), s.radicand))

\* ---------------------------------------------------------- DataAnalyzer
\* self.values = [d.value for d in data]
ValuesOf(d) == [i \in 1..Len(d) |-> d[i].value]

\* The first error raised while evaluating the parts in order, if any.
FirstError(parts) ==
  LET bad == {i \in DOMAIN parts : IsError(parts[i])}
  IN parts[CHOOSE i \in bad : \A j \in bad : i <= j]

AnyError(parts) == \E i \in DOMAIN parts : IsError(parts[i])

get_statistics_unguarded_stdev(vs) ==
  IF vs = <<>> THEN Return(<<>>)
  ELSE LET parts == <<mean(vs), median(vs), stdev(vs)>>
       IN IF AnyError(parts) THEN Raise(FirstError(parts).error)
          ELSE Return([count |-> Len(vs),
                       sum |-> RatOf(sum(vs)),
                       mean |-> parts[1],
                       median |-> parts[2],
                       min |-> RatOf(min(vs)),
                       max |-> RatOf(max(vs)),
                       range |-> RatSub(RatOf(max(vs)), RatOf(min(vs))),
                       stdev |-> parts[3]])

get_statistics(vs) ==
  IF vs = <<>> THEN Return(<<>>)
  ELSE LET parts == <<mean(vs), median(vs),
                      IF Len(vs) > 1 THEN stdev(vs) ELSE RatOf(0)>>
       IN IF AnyError(parts) THEN Raise(FirstError(parts).error)
          ELSE Return([count |-> Len(vs),
                       sum |-> RatOf(sum(vs)),
                       mean |-> parts[1],
                       median |-> parts[2],
                       min |-> RatOf(min(vs)),
                       max |-> RatOf(max(vs)),
                       range |-> RatSub(RatOf(max(vs)), RatOf(min(vs))),
                       stdev |-> parts[3]])

\* The loop of find_outliers over the points d[i..]: it returns the outliers
\* found, or raises the error of the first failing division.
RECURSIVE OutlierLoop(_, _, _, _, _)
OutlierLoop(d, i, mean_val, stdev_val, threshold) ==
  IF i > Len(d) THEN Return(<<>>)
  ELSE LET z_score == AbsDivRoot(RatSub(RatOf(d[i].value), mean_val), stdev_val)
           rest == OutlierLoop(d, i + 1, mean_val, stdev_val, threshold)
       IN IF IsError(z_score) THEN Raise(z_score.error)
          ELSE IF rest.kind = "raise" THEN rest
          ELSE IF RootGt(z_score, threshold) THEN Return(<<d[i]>> \o rest.value)
          ELSE rest

OutlierBody(d, vs, threshold) ==
  LET mean_val == mean(vs)
      stdev_val == stdev(vs)
  IN IF IsError(mean_val) THEN Raise(mean_val.error)
     ELSE IF IsError(stdev_val) THEN Raise(stdev_val.error)
     ELSE OutlierLoop(d, 1, mean_val, stdev_val, threshold)

find_outliers_guard_empty_only(d, vs, threshold) ==
  IF Len(vs) < 1 THEN Return(<<>>) ELSE OutlierBody(d, vs, threshold)

find_outliers(d, vs, threshold) ==
  IF Len(vs) < 2 THEN Return(<<>>) ELSE OutlierBody(d, vs, threshold)

sort_by_value_reverse_after(d, descending) ==
  Return(IF descending THEN Reversed(sorted(d, ValuesOf(d), FALSE))
         ELSE sorted(d, ValuesOf(d), FALSE))

sort_by_value(d, descending) == Return(sorted(d, ValuesOf(d), descending))

RECURSIVE FilterLoop(_, _, _, _)
FilterLoop(d, i, min_val, max_val) ==
  IF i > Len(d) THEN <<>>
  ELSE (IF min_val <= d[i].value /\ d[i].value <= max_val
        THEN <<d[i]>> ELSE <<>>) \o FilterLoop(d, i + 1, min_val, max_val)

RECURSIVE FilterLoopExclusiveMin(_, _, _, _)
FilterLoopExclusiveMin(d, i, min_val, max_val) ==
  IF i > Len(d) THEN <<>>
  ELSE (IF min_val < d[i].value /\ d[i].value <= max_val
        THEN <<d[i]>> ELSE <<>>) \o FilterLoopExclusiveMin(d, i + 1, min_val, max_val)

filter_range_exclusive_min(d, min_val, max_val) ==
  Return(FilterLoopExclusiveMin(d, 1, min_val, max_val))

filter_range(d, min_val, max_val) == Return(FilterLoop(d, 1, min_val, max_val))

\* The direction strings of the program are "↑ Up" and "↓ Down": written
\* here without the arrow.
percentage_change_up_on_zero(vs) ==
  IF Len(vs) < 2 THEN Return(<<RatOf(0), "N/A">>)
  ELSE LET first == vs[1]
           last == vs[Len(vs)]
           change == IF first # 0
                     THEN RatMul(TrueDiv(RatOf(last - first), RatOf(first)), RatOf(100))
                     ELSE RatOf(0)
           direction == IF RatLe(RatOf(0), change) THEN "Up" ELSE "Down"
       IN Return(<<change, direction>>)

percentage_change(vs) ==
  IF Len(vs) < 2 THEN Return(<<RatOf(0), "N/A">>)
  ELSE LET first == vs[1]
           last == vs[Len(vs)]
           change == IF first # 0
                     THEN RatMul(TrueDiv(RatOf(last - first), RatOf(first)), RatOf(100))
                     ELSE RatOf(0)
           direction == IF RatLt(RatOf(0), change) THEN "Up" ELSE "Down"
       IN Return(<<change, direction>>)

\* [mean(values[i:i+window]) for i in range(n)]: the list, or the error of
\* the first mean that raises.
WindowMeans(vs, window, n) ==
  LET parts == [k \in 1..(IF n < 0 THEN 0 ELSE n) |->
                  mean(PySlice(vs, k - 1, k - 1 + window))]
  IN IF AnyError(parts) THEN Raise(FirstError(parts).error) ELSE Return(parts)

moving_average_unguarded(vs, window) ==
  WindowMeans(vs, window, Len(vs) - window + 1)

moving_average_short_range(vs, window) ==
  IF Len(vs) < window THEN Return(vs)
  ELSE WindowMeans(vs, window, Len(vs) - window)

moving_average(vs, window) ==
  IF Len(vs) < window THEN Return(vs)
  ELSE WindowMeans(vs, window, Len(vs) - window + 1)

\* ---------------------------------------------------------------- actions
\* DataAnalyzer(data): the state after construction.
Init ==
  /\ data \in Datasets
  /\ values = ValuesOf(data)
  /\ call = [method |-> "__init__"]
  /\ outcome = Return("None")

GetStatistics ==
  /\ call' = [method |-> "get_statistics"]
  /\ outcome' = get_statistics(values)
  /\ UNCHANGED <<data, values>>

FindOutliers ==
  \E threshold \in Thresholds :
    /\ call' = [method |-> "find_outliers", threshold |-> threshold]
    /\ outcome' = find_outliers(data, values, threshold)
    /\ UNCHANGED <<data, values>>

SortByValueInPlace ==
  \E descending \in BOOLEAN :
    /\ call' = [method |-> "sort_by_value", descending |-> descending]
    /\ outcome' = sort_by_value(data, descending)
    /\ data' = outcome'.value
    /\ UNCHANGED values

SortByValue ==
  \E descending \in BOOLEAN :
    /\ call' = [method |-> "sort_by_value", descending |-> descending]
    /\ outcome' = sort_by_value(data, descending)
    /\ UNCHANGED <<data, values>>

FilterRange ==
  \E min_val \in Values, max_val \in Values :
    /\ call' = [method |-> "filter_range", min_val |-> min_val, max_val |-> max_val]
    /\ outcome' = filter_range(data, min_val, max_val)
    /\ UNCHANGED <<data, values>>

PercentageChange ==
  /\ call' = [method |-> "percentage_change"]
  /\ outcome' = percentage_change(values)
  /\ UNCHANGED <<data, values>>

MovingAverage ==
  \E window \in Windows :
    /\ call' = [method |-> "moving_average", window |-> window]
    /\ outcome' = moving_average(values, window)
    /\ UNCHANGED <<data, values>>

Next ==
  \/ GetStatistics
  \/ FindOutliers
  \/ SortByValue
  \/ FilterRange
  \/ PercentageChange
  \/ MovingAverage

Spec == Init /\ [][Next]_vars

\* ------------------------------------------------------------ properties
Identical(vs) == \A i \in DOMAIN vs : vs[i] = vs[1]

\* C1: on a dataset of two or more points whose values are all identical,
\* find_outliers returns the empty list for every threshold and does not
\* raise.
C1_IdenticalValuesGiveNoOutliers ==
  (call.method = "find_outliers" /\ Len(values) >= 2 /\ Identical(values))
    => (outcome.kind = "return" /\ outcome.value = <<>>)

\* C2: on a dataset of fewer than two points find_outliers returns the empty
\* list for every threshold and does not raise.
C2_FewPointsGiveNoOutliers ==
  (call.method = "find_outliers" /\ Len(data) < 2)
    => (outcome.kind = "return" /\ outcome.value = <<>>)

C2_Witness ==
  /\ call.method = "find_outliers"
  /\ Len(data) = 1
  /\ outcome.kind = "return"
  /\ outcome.value = <<>>

\* C3: percentage_change returns (0, N/A) when there are fewer than two
\* points; otherwise the percent is (last - first) / first * 100 when first is
\* not 0 and 0 when first is 0, and the direction is Up exactly when the
\* percent is positive and Down otherwise.
C3_PercentageChange ==
  call.method = "percentage_change" =>
    /\ outcome.kind = "return"
    /\ LET percent == outcome.value[1]
           direction == outcome.value[2]
           first == values[1]
           last == values[Len(values)]
       IN IF Len(data) < 2
          THEN percent = RatOf(0) /\ direction = "N/A"
          ELSE /\ first # 0 => percent.num * first = (last - first) * 100 * percent.den
               /\ first = 0 => percent = RatOf(0)
               /\ direction \in {"Up", "Down"}
               /\ direction = "Up" <=> percent.num > 0

C3_Witness ==
  /\ call.method = "percentage_change"
  /\ Len(data) >= 2
  /\ values[1] # 0
  /\ values[Len(values)] = values[1]
  /\ outcome.kind = "return"
  /\ outcome.value = <<RatOf(0), "Down">>

\* The result of moving_average is the list of the means of the windows of
\* w consecutive values.
IsWindowMeans(res, vs, w) ==
  /\ Len(res) = Len(vs) - w + 1
  /\ \A i \in 1..Len(res) :
       LET total == sum(SubSeq(vs, i, i + w - 1))
       IN res[i].num * w = total * res[i].den

C5_ShortDatasetUnchanged ==
  (call.method = "moving_average" /\ Len(data) < call.window)
    => /\ outcome.kind = "return"
       /\ Len(outcome.value) = Len(data)
       /\ \A i \in 1..Len(data) : outcome.value[i] = data[i].value

C5_Witness ==
  /\ call.method = "moving_average"
  /\ Len(data) = 3
  /\ call.window = 4
  /\ data[1].value # data[2].value
  /\ outcome.kind = "return"
  /\ Len(outcome.value) = 3

WithValue(s, v) == LET Has(p) == p.value = v IN SelectSeq(s, Has)

\* C6: sort_by_value returns the points of the dataset ordered by value
\* (non-decreasing, or non-increasing when descending), and in both
\* directions the points of one value keep the order they have in the
\* dataset.
C6_SortStable ==
  call.method = "sort_by_value" =>
    /\ outcome.kind = "return"
    /\ LET res == outcome.value
       IN /\ Len(res) = Len(data)
          /\ \A i, j \in 1..Len(res) :
               i < j => IF call.descending
                        THEN res[i].value >= res[j].value
                        ELSE res[i].value <= res[j].value
          /\ \A v \in Values : WithValue(res, v) = WithValue(data, v)

C6_Witness ==
  /\ call.method = "sort_by_value"
  /\ call.descending
  /\ Len(data) = 3
  /\ data[1].value = data[3].value
  /\ data[2].value > data[1].value
  /\ outcome.kind = "return"
  /\ outcome.value = <<data[2], data[1], data[3]>>

\* C7: filter_range returns exactly the points with min <= value <= max, both
\* bounds included, in the order of the dataset and with points of equal value
\* all kept; the result is empty when min > max.
C7_FilterRange ==
  call.method = "filter_range" =>
    /\ outcome.kind = "return"
    /\ LET res == outcome.value
           idx == {i \in 1..Len(data) :
                     call.min_val <= data[i].value /\ data[i].value <= call.max_val}
       IN /\ Len(res) = Cardinality(idx)
          /\ \A k \in 1..Len(res) :
               \E i \in idx : /\ Cardinality({j \in idx : j <= i}) = k
                              /\ res[k] = data[i]
          /\ call.min_val > call.max_val => res = <<>>

C7_Witness ==
  /\ call.method = "filter_range"
  /\ Len(data) = 3
  /\ data[1].value = call.min_val
  /\ data[3].value = call.min_val
  /\ data[2].value > call.max_val
  /\ outcome.kind = "return"
  /\ outcome.value = <<data[1], data[3]>>

StatKeys == {"count", "sum", "mean", "median", "min", "max", "range", "stdev"}

\* C8: get_statistics never raises; on the empty dataset it returns the empty
\* mapping, and otherwise a mapping with exactly the keys count, sum, mean,
\* median, min, max, range, stdev, where count is the length of the dataset,
\* range is max - min, and stdev is 0 when count is 1.
C8_Statistics ==
  call.method = "get_statistics" =>
    /\ outcome.kind = "return"
    /\ IF data = <<>>
       THEN DOMAIN outcome.value = {}
       ELSE LET st == outcome.value
            IN /\ DOMAIN st = StatKeys
               /\ st.count = Len(data)
               /\ st.range.den * (st.max.num * st.min.den - st.min.num * st.max.den)
                    = st.range.num * st.max.den * st.min.den
               /\ st.count = 1 => st.stdev = RatOf(0)

C8_Witness ==
  /\ call.method = "get_statistics"
  /\ Len(data) = 1
  /\ outcome.kind = "return"
  /\ outcome.value.count = 1
  /\ outcome.value.stdev = RatOf(0)

\* C9: on a non-empty dataset the statistics satisfy min <= mean <= max
\* (min * count <= sum <= max * count) and min <= median <= max.
C9_MeanMedianWithinRange ==
  (call.method = "get_statistics" /\ data # <<>> /\ outcome.kind = "return") =>
    LET st == outcome.value
    IN /\ RatLe(st.min, st.mean) /\ RatLe(st.mean, st.max)
       /\ RatLe(RatMul(st.min, RatOf(st.count)), st.sum)
       /\ RatLe(st.sum, RatMul(st.max, RatOf(st.count)))
       /\ RatLe(st.min, st.median) /\ RatLe(st.median, st.max)

C9_Witness ==
  /\ call.method = "get_statistics"
  /\ Len(data) = 3
  /\ outcome.kind = "return"
  /\ RatLt(outcome.value.min, outcome.value.mean)
  /\ RatLt(outcome.value.mean, outcome.value.median)
  /\ RatLt(outcome.value.median, outcome.value.max)

IsProjection ==
  /\ Len(values) = Len(data)
  /\ \A i \in 1..Len(data) : values[i] = data[i].value

\* C10: after construction and after any sequence of method calls the dataset
\* and the value list are unchanged, and the value list is the positional
\* projection of the dataset.
C10_DatasetUnchanged ==
  /\ []IsProjection
  /\ [][data' = data /\ values' = values]_vars

C10_Witness ==
  /\ call.method = "sort_by_value"
  /\ outcome.kind = "return"
  /\ Len(data) = 3
  /\ outcome.value # data
  /\ IsProjection

====
